---- MODULE Spec2Model ----
(***************************************************************************)
(* Subscription dispatch engine of serverless-appsync-offline              *)
(* (src/lib/serverCore.js): the Event Filter shouldPublishSubscription and *)
(* the SubscriptionServer class (register, onClientConnect,                *)
(* onClientSubscribed, onClientUnsubscribed, the liveness timer).          *)
(*                                                                         *)
(* The reactive query engine (graphql subscribe), the broker and the       *)
(* runtime's timer table are the environment: a stream is a queue of       *)
(* events with graceful cancellation (return()), publish appends to a log, *)
(* setTimeout arms a one-shot timer that fires once its delay has elapsed. *)
(* Every await of the source is a suspension point, so an async handler is *)
(* a sequence of atomic steps. An exception inside an async handler is an  *)
(* unhandled rejection, which the runtime reports or treats as fatal.      *)
(***************************************************************************)
EXTENDS Integers, Sequences, FiniteSets, TLC

----------------------------------------------------------------------------
(* Bounds of the model *)

\* register calls under StoreSpec (each one draws a topic id)
MaxRegs == 2
\* register calls under Spec
MaxStreamRegs == 1
\* total number of events the engine produces over all streams
MaxEvents == 2
\* handlers that may be suspended at `await subscribeToGraphQL` at once
MaxPending == 2
\* consumption loops that may be running at once
MaxLoops == 2
\* total number of streams the engine creates
MaxStreams == 3

----------------------------------------------------------------------------
(* JSON values *)

Clients == {"c1", "c2"}

Keys == {"id", "name"}

\* a property that is absent reads as undefined
Undefined == "undefined"

\* "s1" and "s2" are the strings "1" and "2"; "n2" is the number 2
Vals == {"s1", "s2", "n2"}

\* an object with scalar properties; an absent key maps to Undefined
Objects == [Keys -> Vals \cup {Undefined}]

EmptyObject == [k \in Keys |-> Undefined]

\* the value of a top-level field of the payload body: null or an object
FieldValues ==
  {[isNull |-> TRUE, props |-> EmptyObject]}
    \cup {[isNull |-> FALSE, props |-> o] : o \in Objects}

FieldNames == {"onCreate", "onUpdate"}

Fields == [name : FieldNames, value : FieldValues]

\* payload.data as the list Object.entries sees: its fields in insertion order
Bodies ==
  {<<>>} \cup {<<f>> : f \in Fields}
    \cup {<<f, g>> : f \in {x \in Fields : x.name = "onCreate"},
                     g \in {x \in Fields : x.name = "onUpdate"}}
    \cup {<<f, g>> : f \in {x \in Fields : x.name = "onUpdate"},
                     g \in {x \in Fields : x.name = "onCreate"}}

NullPayload == [isNull |-> TRUE, dataIsNull |-> TRUE, data |-> <<>>]

NoDataPayload == [isNull |-> FALSE, dataIsNull |-> TRUE, data |-> <<>>]

BodyPayload(b) == [isNull |-> FALSE, dataIsNull |-> FALSE, data |-> b]

Payloads == {NullPayload, NoDataPayload} \cup {BodyPayload(b) : b \in Bodies}

\* the variables of a request: a map, or omitted from the request body
OmittedVariables == [omitted |-> TRUE, entries |-> EmptyObject]

VariableMap(o) == [omitted |-> FALSE, entries |-> o]

VariableValues == {OmittedVariables} \cup {VariableMap(o) : o \in Objects}

\* the keys Object.entries(variables) lists
EntryKeys(variables) == {k \in Keys : variables.entries[k] # Undefined}

----------------------------------------------------------------------------
(* Event Filter *)

\* mutant: == in place of ===, so that the number 2 matches the string "2"
EveryEntryMatchesLoose(payloadData, variables) ==
  \A k \in EntryKeys(variables) :
     \/ payloadData.props[k] = variables.entries[k]
     \/ {payloadData.props[k], variables.entries[k]} = {"s2", "n2"}

\* payloadData[variableKey] === variableValue for every entry
EveryEntryMatches(payloadData, variables) ==
  \A k \in EntryKeys(variables) : payloadData.props[k] = variables.entries[k]

\* mutant: the guard tests payload == null only, not payload.data == null
shouldPublishNoDataCheck(payload, variables) ==
  IF payload.isNull THEN "false"
  ELSE IF variables.omitted THEN "TypeError"
  ELSE IF EntryKeys(variables) = {} THEN "true"
  ELSE IF Len(payload.data) = 0 THEN "TypeError"
  ELSE IF payload.data[1].value.isNull THEN "TypeError"
  ELSE IF EveryEntryMatches(payload.data[1].value, variables) THEN "true"
  ELSE "false"

\* mutant: the variables are not compared with the payload
shouldPublishUnfiltered(payload, variables) ==
  IF payload.isNull \/ payload.dataIsNull THEN "false"
  ELSE IF variables.omitted THEN "TypeError"
  ELSE "true"

\* the result is "true", "false" or the "TypeError" the call raises
shouldPublishSubscription(payload, variables) ==
  IF payload.isNull \/ payload.dataIsNull THEN "false"
  ELSE IF variables.omitted THEN "TypeError"
  ELSE IF EntryKeys(variables) = {} THEN "true"
  ELSE IF Len(payload.data) = 0 THEN "TypeError"
  ELSE IF payload.data[1].value.isNull THEN "TypeError"
  ELSE IF EveryEntryMatches(payload.data[1].value, variables) THEN "true"
  ELSE "false"

\* JSON.stringify of a scalar, of an object and of a payload
StringifyVal(v) ==
  CASE v = "s1" -> "\"1\""
    [] v = "s2" -> "\"2\""
    [] v = "n2" -> "2"

StringifyObject(o) ==
  "{" \o (IF o["id"] # Undefined THEN "\"id\":" \o StringifyVal(o["id"]) ELSE "")
      \o (IF o["id"] # Undefined /\ o["name"] # Undefined THEN "," ELSE "")
      \o (IF o["name"] # Undefined THEN "\"name\":" \o StringifyVal(o["name"]) ELSE "")
      \o "}"

StringifyField(f) ==
  "\"" \o f.name \o "\":"
       \o (IF f.value.isNull THEN "null" ELSE StringifyObject(f.value.props))

StringifyBody(b) ==
  "{" \o (IF Len(b) >= 1 THEN StringifyField(b[1]) ELSE "")
      \o (IF Len(b) >= 2 THEN "," \o StringifyField(b[2]) ELSE "")
      \o "}"

JSONStringify(payload) ==
  IF payload.isNull THEN "null"
  ELSE IF payload.dataIsNull THEN "{\"data\":null}"
  ELSE "{\"data\":" \o StringifyBody(payload.data) \o "}"

----------------------------------------------------------------------------
(* Inputs of the state machine *)

\* the subscription requests: c1 asks for {id: "2"}, c2 passes {}
Requests ==
  {[clientId |-> "c1", documentAST |-> "subscription onCreate",
    variables |-> VariableMap([k \in Keys |-> IF k = "id" THEN "s2" ELSE Undefined])],
   [clientId |-> "c2", documentAST |-> "subscription onCreate",
    variables |-> VariableMap(EmptyObject)]}

OnCreate(id) ==
  BodyPayload(<<[name |-> "onCreate",
                 value |-> [isNull |-> FALSE,
                            props |-> [k \in Keys |-> IF k = "id" THEN id ELSE Undefined]]]>>)

OnCreateNull ==
  BodyPayload(<<[name |-> "onCreate",
                 value |-> [isNull |-> TRUE, props |-> EmptyObject]]>>)

\* the events the engine yields: {data: {onCreate: {id: "1"}}},
\* {data: {onCreate: {id: "2"}}} and {data: {onCreate: null}}
StreamEvents == {OnCreate("s1"), OnCreate("s2"), OnCreateNull}

Topics == 1 .. MaxRegs

----------------------------------------------------------------------------
(* State *)

VARIABLES
  registrations,    \* this.registrations: clientId -> list of registrations
  iteratorTimeout,  \* this.iteratorTimeout: clientId -> timer handle (0: no entry)
  timers,           \* the runtime's timers, in the order setTimeout armed them
  streams,          \* the async iterators the engine has created
  pending,          \* handlers suspended at `await this.subscribeToGraphQL(...)`
  loops,            \* onClientSubscribed invocations inside `while (true)`
  published,        \* what mqttServer.publish was called with, in order
  response,         \* what the last register call that settled returned
  nextTopic,        \* the next value uuid() returns
  produced,         \* history: per topic, the events the engine produced for it
  afterCancel,      \* history: per topic, publishes since unsubscribed (-1: not cancelled)
  ignored,          \* history: the last event a handler only logged (LogSpec)
  process,          \* the Node process: "running" or "exited"
  fPayload,         \* Event Filter harness: the payload,
  fVariables,       \*   the variables,
  fResult           \*   and what shouldPublishSubscription made of them

vars ==
  <<registrations, iteratorTimeout, timers, streams, pending, loops, published,
    response, nextTopic, produced, afterCancel, ignored, process,
    fPayload, fVariables, fResult>>

\* everything but the record of the events that were only logged
stateVars ==
  <<registrations, iteratorTimeout, timers, streams, pending, loops, published,
    response, nextTopic, produced, afterCancel, process>>

serverVars == <<stateVars, ignored>>

filterVars == <<fPayload, fVariables, fResult>>

NoResponse == [kind |-> "none", client |-> "", topics |-> <<>>, topic |-> 0]

InitServer ==
  /\ registrations = [c \in Clients |-> <<>>]
  /\ iteratorTimeout = [c \in Clients |-> 0]
  /\ timers = <<>>
  /\ streams = <<>>
  /\ pending = <<>>
  /\ loops = <<>>
  /\ published = <<>>
  /\ response = NoResponse
  /\ nextTopic = 1
  /\ produced = [t \in Topics |-> <<>>]
  /\ afterCancel = [t \in Topics |-> -1]
  /\ ignored = "unrecorded"
  /\ process = "running"

Init ==
  /\ InitServer
  /\ fPayload = NullPayload
  /\ fVariables = OmittedVariables
  /\ fResult = "idle"

----------------------------------------------------------------------------
(* Helpers *)

\* the record of the last event that was only logged, where one is kept
Logged(event) == IF ignored = "unrecorded" THEN ignored ELSE event

RemoveAt(seq, i) == SubSeq(seq, 1, i - 1) \o SubSeq(seq, i + 1, Len(seq))

RECURSIVE SumLen(_, _)
SumLen(f, n) == IF n = 0 THEN 0 ELSE Len(f[n]) + SumLen(f, n - 1)

\* regs.find(({ topicId }) => topicId === topic): the first match, 0 for none
FindReg(regs, topic) ==
  IF \E i \in 1 .. Len(regs) : regs[i].topicId = topic
  THEN CHOOSE i \in 1 .. Len(regs) :
         /\ regs[i].topicId = topic
         /\ \A j \in 1 .. (i - 1) : regs[j].topicId # topic
  ELSE 0

\* what subscribe() of the engine answers with when it does not answer with errors
subscribeToGraphQL(registration) ==
  [topic |-> registration.topicId,
   document |-> registration.documentAST,
   variableValues |-> registration.variables,
   contextValue |-> registration.context,
   listening |-> TRUE,
   queue |-> <<>>]

\* asyncIterator.return(): the stream stops, what it buffered is dropped
Return(strs, s) == [strs EXCEPT ![s].listening = FALSE, ![s].queue = <<>>]

NoValue == NullPayload

\* lines 117-121: the loop captures the registration's stream, topic and
\* variables and issues its first asyncIterator.next()
StartLoop(clientId, reg) ==
  [clientId |-> clientId,
   topicId |-> reg.topicId,
   variables |-> reg.variables,
   asyncIterator |-> reg.asyncIterator,
   pc |-> "next",
   value |-> NoValue]

----------------------------------------------------------------------------
(* register *)

\* lines 177-189: up to `await this.subscribeToGraphQL(registration)`
RegisterBegin(clientId, documentAST, variables) ==
  /\ process = "running"
  /\ Len(pending) < MaxPending
  /\ pending' = Append(pending,
       [kind |-> "register", clientId |-> clientId, topicId |-> nextTopic,
        documentAST |-> documentAST, variables |-> variables,
        context |-> [jwt |-> [sub |-> clientId]]])
  /\ nextTopic' = nextTopic + 1
  /\ UNCHANGED <<registrations, iteratorTimeout, timers, streams, loops,
                 published, response, produced, afterCancel>>
  /\ UNCHANGED <<ignored, process, filterVars>>

\* mutant: the registration is stored before the answer is looked at
RegisterErrorsStored(i) ==
  /\ process = "running"
  /\ i \in 1 .. Len(pending)
  /\ pending[i].kind = "register"
  /\ pending' = RemoveAt(pending, i)
  /\ response' = [kind |-> "errors", client |-> pending[i].clientId,
                  topics |-> <<>>, topic |-> 0]
  /\ registrations' = [registrations EXCEPT ![pending[i].clientId] =
       Append(@, [topicId |-> pending[i].topicId,
                  documentAST |-> pending[i].documentAST,
                  variables |-> pending[i].variables,
                  context |-> pending[i].context,
                  asyncIterator |-> 0, isRegistered |-> FALSE])]
  /\ UNCHANGED <<iteratorTimeout, timers, streams, loops,
                 published, nextTopic, produced, afterCancel>>
  /\ UNCHANGED <<ignored, process, filterVars>>

\* lines 191-196: the engine answered with errors
RegisterErrors(i) ==
  /\ process = "running"
  /\ i \in 1 .. Len(pending)
  /\ pending[i].kind = "register"
  /\ pending' = RemoveAt(pending, i)
  /\ response' = [kind |-> "errors", client |-> pending[i].clientId,
                  topics |-> <<>>, topic |-> 0]
  /\ UNCHANGED <<registrations, iteratorTimeout, timers, streams, loops,
                 published, nextTopic, produced, afterCancel>>
  /\ UNCHANGED <<ignored, process, filterVars>>

\* mutant: the handshake lists the new topic only
RegisterOkNewTopicOnly(i) ==
  /\ process = "running"
  /\ i \in 1 .. Len(pending)
  /\ pending[i].kind = "register"
  /\ LET p == pending[i]
         asyncIterator == Len(streams) + 1
         registration ==
           [topicId |-> p.topicId, documentAST |-> p.documentAST,
            variables |-> p.variables, context |-> p.context,
            asyncIterator |-> asyncIterator, isRegistered |-> TRUE]
         currentRegistrations == Append(registrations[p.clientId], registration)
     IN /\ streams' = Append(streams, subscribeToGraphQL(registration))
        /\ registrations' = [registrations EXCEPT ![p.clientId] = currentRegistrations]
        /\ timers' = Append(timers,
             [clientId |-> p.clientId, topicId |-> p.topicId,
              asyncIterator |-> asyncIterator, state |-> "armed",
              claimed |-> FALSE])
        /\ iteratorTimeout' = [iteratorTimeout EXCEPT ![p.clientId] = Len(timers) + 1]
        /\ response' =
             [kind |-> "handshake", client |-> p.clientId,
              topics |-> <<p.topicId>>,
              topic |-> p.topicId]
  /\ pending' = RemoveAt(pending, i)
  /\ UNCHANGED <<loops, published, nextTopic, produced, afterCancel>>
  /\ UNCHANGED <<ignored, process, filterVars>>

\* lines 198-245: the engine answered with a stream
RegisterOk(i) ==
  /\ process = "running"
  /\ i \in 1 .. Len(pending)
  /\ pending[i].kind = "register"
  /\ LET p == pending[i]
         asyncIterator == Len(streams) + 1
         registration ==
           [topicId |-> p.topicId, documentAST |-> p.documentAST,
            variables |-> p.variables, context |-> p.context,
            asyncIterator |-> asyncIterator, isRegistered |-> TRUE]
         currentRegistrations == Append(registrations[p.clientId], registration)
     IN /\ streams' = Append(streams, subscribeToGraphQL(registration))
        /\ registrations' = [registrations EXCEPT ![p.clientId] = currentRegistrations]
        /\ timers' = Append(timers,
             [clientId |-> p.clientId, topicId |-> p.topicId,
              asyncIterator |-> asyncIterator, state |-> "armed",
              claimed |-> FALSE])
        /\ iteratorTimeout' = [iteratorTimeout EXCEPT ![p.clientId] = Len(timers) + 1]
        /\ response' =
             [kind |-> "handshake", client |-> p.clientId,
              topics |-> [k \in 1 .. Len(currentRegistrations) |->
                            currentRegistrations[k].topicId],
              topic |-> p.topicId]
  /\ pending' = RemoveAt(pending, i)
  /\ UNCHANGED <<loops, published, nextTopic, produced, afterCancel>>
  /\ UNCHANGED <<ignored, process, filterVars>>

----------------------------------------------------------------------------
(* Liveness timer *)

\* lines 76-83: clearTimeout of the handle stored for the client
onClientConnect(clientId) ==
  /\ process = "running"
  /\ LET timeout == iteratorTimeout[clientId]
     IN IF timeout # 0 /\ timers[timeout].state = "armed"
        THEN timers' = [timers EXCEPT ![timeout].state = "cleared"]
        ELSE UNCHANGED timers
  /\ UNCHANGED <<registrations, iteratorTimeout, streams, pending, loops,
                 published, response, nextTopic, produced, afterCancel>>
  /\ UNCHANGED <<ignored, process, filterVars>>

\* timers have the same delay, so their windows end in the order they were armed
WindowOpen(i) == timers[i].state \in {"armed", "cleared"}

\* history: a subscribed event for the topic arrived before its window ended
Claim(tms, topic) ==
  [i \in 1 .. Len(tms) |->
     IF tms[i].topicId = topic /\ tms[i].state \in {"armed", "cleared"}
     THEN [tms[i] EXCEPT !.claimed = TRUE]
     ELSE tms[i]]

\* mutant: the callback does not return the stream
WindowElapsesNoReturn(i) ==
  /\ process = "running"
  /\ i \in 1 .. Len(timers)
  /\ WindowOpen(i)
  /\ \A j \in 1 .. (i - 1) : ~WindowOpen(j)
  /\ timers' = [timers EXCEPT ![i].state = IF @ = "armed" THEN "fired" ELSE "lapsed"]
  /\ UNCHANGED <<registrations, iteratorTimeout, streams, pending, loops, published,
                 response, nextTopic, produced, afterCancel>>
  /\ UNCHANGED <<ignored, process, filterVars>>

\* lines 211-213: ConnectTimeout after register the callback runs, unless
\* clearTimeout got there first
WindowElapses(i) ==
  /\ process = "running"
  /\ i \in 1 .. Len(timers)
  /\ WindowOpen(i)
  /\ \A j \in 1 .. (i - 1) : ~WindowOpen(j)
  /\ IF timers[i].state = "armed"
     THEN /\ streams' = Return(streams, timers[i].asyncIterator)
          /\ timers' = [timers EXCEPT ![i].state = "fired"]
     ELSE /\ streams' = streams
          /\ timers' = [timers EXCEPT ![i].state = "lapsed"]
  /\ UNCHANGED <<registrations, iteratorTimeout, pending, loops, published,
                 response, nextTopic, produced, afterCancel>>
  /\ UNCHANGED <<ignored, process, filterVars>>

----------------------------------------------------------------------------
(* Broker lifecycle events *)

\* lines 85-101: the client or the topic is unknown: logged and ignored
SubscribedUnknown(topic, clientId) ==
  /\ process = "running"
  /\ FindReg(registrations[clientId], topic) = 0
  /\ ignored' = Logged("subscribed")
  /\ UNCHANGED <<stateVars, filterVars>>

\* lines 103, 117-121: isRegistered is set, so the handler goes straight to
\* the loop with the stream the registration holds
SubscribedRegistered(topic, clientId) ==
  /\ process = "running"
  /\ FindReg(registrations[clientId], topic) # 0
  /\ LET reg == registrations[clientId][FindReg(registrations[clientId], topic)]
     IN /\ reg.isRegistered
        /\ Len(loops) < MaxLoops
        /\ loops' = Append(loops, StartLoop(clientId, reg))
  /\ timers' = Claim(timers, topic)
  /\ afterCancel' = [afterCancel EXCEPT ![topic] = -1]
  /\ UNCHANGED <<registrations, iteratorTimeout, streams, pending,
                 published, response, nextTopic, produced>>
  /\ UNCHANGED <<ignored, process, filterVars>>

\* lines 103-104: isRegistered is not set: up to `await this.subscribeToGraphQL(reg)`
SubscribedBegin(topic, clientId) ==
  /\ process = "running"
  /\ FindReg(registrations[clientId], topic) # 0
  /\ LET reg == registrations[clientId][FindReg(registrations[clientId], topic)]
     IN /\ ~reg.isRegistered
        /\ Len(pending) < MaxPending
        /\ pending' = Append(pending,
             [kind |-> "subscribed", clientId |-> clientId, topicId |-> topic,
              documentAST |-> reg.documentAST, variables |-> reg.variables,
              context |-> reg.context])
  /\ timers' = Claim(timers, topic)
  /\ afterCancel' = [afterCancel EXCEPT ![topic] = -1]
  /\ UNCHANGED <<registrations, iteratorTimeout, streams, loops,
                 published, response, nextTopic, produced>>
  /\ UNCHANGED <<ignored, process, filterVars>>

\* mutant: the registration is marked although the engine answered with errors
SubscribedErrorsMarked(i) ==
  /\ process = "running"
  /\ i \in 1 .. Len(pending)
  /\ pending[i].kind = "subscribed"
  /\ pending' = RemoveAt(pending, i)
  /\ LET p == pending[i]
         r == FindReg(registrations[p.clientId], p.topicId)
     IN registrations' = [registrations EXCEPT ![p.clientId][r].isRegistered = TRUE]
  /\ UNCHANGED <<iteratorTimeout, timers, streams, loops,
                 published, response, nextTopic, produced, afterCancel>>
  /\ UNCHANGED <<ignored, process, filterVars>>

\* lines 106-109: the engine answered with errors
SubscribedErrors(i) ==
  /\ process = "running"
  /\ i \in 1 .. Len(pending)
  /\ pending[i].kind = "subscribed"
  /\ pending' = RemoveAt(pending, i)
  /\ UNCHANGED <<registrations, iteratorTimeout, timers, streams, loops,
                 published, response, nextTopic, produced, afterCancel>>
  /\ UNCHANGED <<ignored, process, filterVars>>

\* mutant: the new stream is not stored, the loop runs on the old one
SubscribedOkStale(i) ==
  /\ process = "running"
  /\ i \in 1 .. Len(pending)
  /\ pending[i].kind = "subscribed"
  /\ Len(loops) < MaxLoops
  /\ Len(streams) < MaxStreams
  /\ LET p == pending[i]
         r == FindReg(registrations[p.clientId], p.topicId)
         reg == [registrations[p.clientId][r] EXCEPT !.isRegistered = TRUE]
     IN /\ streams' = Append(streams, subscribeToGraphQL(registrations[p.clientId][r]))
        /\ registrations' = [registrations EXCEPT ![p.clientId][r] = reg]
        /\ loops' = Append(loops, StartLoop(p.clientId, reg))
  /\ pending' = RemoveAt(pending, i)
  /\ afterCancel' = [afterCancel EXCEPT ![pending[i].topicId] = -1]
  /\ UNCHANGED <<iteratorTimeout, timers, published, response, nextTopic, produced>>
  /\ UNCHANGED <<ignored, process, filterVars>>

\* lines 111-121: the engine answered with a stream: it is stored in the
\* registration, isRegistered is set and the loop starts on it
SubscribedOk(i) ==
  /\ process = "running"
  /\ i \in 1 .. Len(pending)
  /\ pending[i].kind = "subscribed"
  /\ Len(loops) < MaxLoops
  /\ Len(streams) < MaxStreams
  /\ LET p == pending[i]
         r == FindReg(registrations[p.clientId], p.topicId)
         asyncIterator == Len(streams) + 1
         reg == [registrations[p.clientId][r] EXCEPT
                   !.asyncIterator = asyncIterator, !.isRegistered = TRUE]
     IN /\ streams' = Append(streams, subscribeToGraphQL(registrations[p.clientId][r]))
        /\ registrations' = [registrations EXCEPT ![p.clientId][r] = reg]
        /\ loops' = Append(loops, StartLoop(p.clientId, reg))
  /\ pending' = RemoveAt(pending, i)
  /\ afterCancel' = [afterCancel EXCEPT ![pending[i].topicId] = -1]
  /\ UNCHANGED <<iteratorTimeout, timers, published, response, nextTopic, produced>>
  /\ UNCHANGED <<ignored, process, filterVars>>

onClientSubscribed(topic, clientId) ==
  \/ SubscribedUnknown(topic, clientId)
  \/ SubscribedRegistered(topic, clientId)
  \/ SubscribedBegin(topic, clientId)

\* mutant: with no registration for the topic, every stream of the client is
\* returned
UnsubscribedUnknownCancels(topic, clientId) ==
  /\ process = "running"
  /\ FindReg(registrations[clientId], topic) = 0
  /\ ignored' = Logged("unsubscribed")
  /\ streams' = [s \in 1 .. Len(streams) |->
                   IF streams[s].contextValue.jwt.sub = clientId
                   THEN [streams[s] EXCEPT !.listening = FALSE, !.queue = <<>>]
                   ELSE streams[s]]
  /\ UNCHANGED <<registrations, iteratorTimeout, timers, pending, loops,
                 published, response, nextTopic, produced, afterCancel>>
  /\ UNCHANGED <<process, filterVars>>

\* lines 144-160: the client or the topic is unknown: logged and ignored
UnsubscribedUnknown(topic, clientId) ==
  /\ process = "running"
  /\ FindReg(registrations[clientId], topic) = 0
  /\ ignored' = Logged("unsubscribed")
  /\ UNCHANGED <<stateVars, filterVars>>

\* mutant: the registration is taken out of the client's list
UnsubscribedKnownRemoves(topic, clientId) ==
  /\ process = "running"
  /\ FindReg(registrations[clientId], topic) # 0
  /\ LET r == FindReg(registrations[clientId], topic)
         reg == registrations[clientId][r]
     IN /\ streams' = Return(streams, reg.asyncIterator)
        /\ registrations' = [registrations EXCEPT ![clientId] = RemoveAt(@, r)]
  /\ afterCancel' = [afterCancel EXCEPT ![topic] = 0]
  /\ UNCHANGED <<iteratorTimeout, timers, pending, loops, published, response,
                 nextTopic, produced>>
  /\ UNCHANGED <<ignored, process, filterVars>>

\* lines 162-165: reg.asyncIterator.return(), then isRegistered = false
UnsubscribedKnown(topic, clientId) ==
  /\ process = "running"
  /\ FindReg(registrations[clientId], topic) # 0
  /\ LET r == FindReg(registrations[clientId], topic)
         reg == registrations[clientId][r]
     IN /\ streams' = Return(streams, reg.asyncIterator)
        /\ registrations' = [registrations EXCEPT ![clientId][r].isRegistered = FALSE]
  /\ afterCancel' = [afterCancel EXCEPT ![topic] = 0]
  /\ UNCHANGED <<iteratorTimeout, timers, pending, loops, published, response,
                 nextTopic, produced>>
  /\ UNCHANGED <<ignored, process, filterVars>>

onClientUnsubscribed(topic, clientId) ==
  \/ UnsubscribedUnknown(topic, clientId)
  \/ UnsubscribedKnown(topic, clientId)

\* mutant: the streams of the client's registrations are returned
onClientDisconnectCancels(clientId) ==
  /\ process = "running"
  /\ clientId \in Clients
  /\ ignored' = Logged("disconnected")
  /\ streams' = [s \in 1 .. Len(streams) |->
                   IF streams[s].contextValue.jwt.sub = clientId
                   THEN [streams[s] EXCEPT !.listening = FALSE, !.queue = <<>>]
                   ELSE streams[s]]
  /\ UNCHANGED <<registrations, iteratorTimeout, timers, pending, loops,
                 published, response, nextTopic, produced, afterCancel>>
  /\ UNCHANGED <<process, filterVars>>

\* lines 168-175: only logs
onClientDisconnect(clientId) ==
  /\ process = "running"
  /\ clientId \in Clients
  /\ ignored' = Logged("disconnected")
  /\ UNCHANGED <<stateVars, filterVars>>

----------------------------------------------------------------------------
(* The engine's streams and the consumption loop *)

\* the engine produces an event on a stream that is listening
Produce(s, event) ==
  /\ process = "running"
  /\ s \in 1 .. Len(streams)
  /\ streams[s].listening
  /\ streams' = [streams EXCEPT ![s].queue = Append(@, event)]
  /\ produced' = [produced EXCEPT ![streams[s].topic] = Append(@, event)]
  /\ UNCHANGED <<registrations, iteratorTimeout, timers, pending, loops,
                 published, response, nextTopic, afterCancel>>
  /\ UNCHANGED <<ignored, process, filterVars>>

\* line 121: the pending asyncIterator.next() of a loop settles with an event
Deliver(l) ==
  /\ process = "running"
  /\ l \in 1 .. Len(loops)
  /\ loops[l].pc = "next"
  /\ LET s == loops[l].asyncIterator
     IN /\ streams[s].listening
        /\ streams[s].queue # <<>>
        /\ loops' = [loops EXCEPT ![l].pc = "got", ![l].value = Head(streams[s].queue)]
        /\ streams' = [streams EXCEPT ![s].queue = Tail(@)]
  /\ UNCHANGED <<registrations, iteratorTimeout, timers, pending, published,
                 response, nextTopic, produced, afterCancel>>
  /\ UNCHANGED <<ignored, process, filterVars>>

\* the message line 135 hands to mqttServer.publish
Message(topicId, payload) ==
  [topic |-> topicId, payload |-> JSONStringify(payload), qos |-> 0, retain |-> FALSE]

\* lines 68, 85, 120-141: onClientSubscribed is async, nothing inside it
\* catches, and the listener drops the promise it returns, so an exception
\* raised inside the loop is an unhandled rejection. The runtime either reports
\* it and goes on, with that handler gone, or treats it as fatal (the default
\* from Node 15 on) and the process exits with every handler it was running
Unhandled(l) ==
  \/ /\ loops' = RemoveAt(loops, l)
     /\ UNCHANGED <<pending, process>>
  \/ /\ loops' = <<>>
     /\ pending' = <<>>
     /\ process' = "exited"

\* lines 122-141: the loop resumes with the event: filter, publish, next();
\* a TypeError of the filter is raised inside the loop
LoopStep(l) ==
  /\ process = "running"
  /\ l \in 1 .. Len(loops)
  /\ loops[l].pc = "got"
  /\ LET loop == loops[l]
         verdict == shouldPublishSubscription(loop.value, loop.variables)
     IN /\ IF verdict = "TypeError"
           THEN Unhandled(l)
           ELSE /\ loops' = [loops EXCEPT ![l].pc = "next", ![l].value = NoValue]
                /\ UNCHANGED <<pending, process>>
        /\ IF verdict = "true"
           THEN /\ published' = Append(published, Message(loop.topicId, loop.value))
                /\ afterCancel' = [afterCancel EXCEPT ![loop.topicId] =
                                     IF @ >= 0 THEN @ + 1 ELSE @]
           ELSE UNCHANGED <<published, afterCancel>>
  /\ UNCHANGED <<registrations, iteratorTimeout, timers, streams,
                 response, nextTopic, produced>>
  /\ UNCHANGED <<ignored, filterVars>>

\* line 121: the stream raises: the pending next() of a loop rejects, which
\* is raised inside the loop, and a stream that raised is finished
StreamFault(l) ==
  /\ process = "running"
  /\ l \in 1 .. Len(loops)
  /\ loops[l].pc = "next"
  /\ streams[loops[l].asyncIterator].listening
  /\ streams' = Return(streams, loops[l].asyncIterator)
  /\ Unhandled(l)
  /\ UNCHANGED <<registrations, iteratorTimeout, timers, published,
                 response, nextTopic, produced, afterCancel>>
  /\ UNCHANGED <<ignored, filterVars>>

\* line 122: the pending next() of a loop reports done (the stream was
\* returned) and the handler returns
LoopEnd(l) ==
  /\ process = "running"
  /\ l \in 1 .. Len(loops)
  /\ loops[l].pc = "next"
  /\ ~streams[loops[l].asyncIterator].listening
  /\ loops' = RemoveAt(loops, l)
  /\ UNCHANGED <<registrations, iteratorTimeout, timers, streams, pending,
                 published, response, nextTopic, produced, afterCancel>>
  /\ UNCHANGED <<ignored, process, filterVars>>

----------------------------------------------------------------------------
(* Specifications *)

\* the steps of the handlers and of the loops, whatever the environment does
Handlers ==
  \/ \E i \in 1 .. MaxPending : RegisterErrors(i)
  \/ \E i \in 1 .. MaxPending : RegisterOk(i)
  \/ \E c \in Clients : onClientConnect(c)
  \/ \E i \in 1 .. MaxRegs : WindowElapses(i)
  \/ \E t \in Topics, c \in Clients : onClientSubscribed(t, c)
  \/ \E i \in 1 .. MaxPending : SubscribedErrors(i)
  \/ \E i \in 1 .. MaxPending : SubscribedOk(i)
  \/ \E t \in Topics, c \in Clients : onClientUnsubscribed(t, c)
  \/ \E c \in Clients : onClientDisconnect(c)
  \/ \E l \in 1 .. MaxLoops : LoopEnd(l)

\* one subscription, and an engine that produces events and raises
Next ==
  \/ \E r \in Requests :
       /\ nextTopic <= MaxStreamRegs
       /\ RegisterBegin(r.clientId, r.documentAST, r.variables)
  \/ Handlers
  \/ \E s \in 1 .. MaxStreams, e \in StreamEvents :
       /\ SumLen(produced, MaxRegs) < MaxEvents
       /\ Produce(s, e)
  \/ \E l \in 1 .. MaxLoops : Deliver(l)
  \/ \E l \in 1 .. MaxLoops : LoopStep(l)
  \/ \E l \in 1 .. MaxLoops : StreamFault(l)

Spec == Init /\ [][Next]_vars

\* several subscriptions, and an engine that produces nothing
NextStore ==
  \/ \E r \in Requests :
       /\ nextTopic <= MaxRegs
       /\ RegisterBegin(r.clientId, r.documentAST, r.variables)
  \/ Handlers

StoreSpec == Init /\ [][NextStore]_vars

\* Spec, with a record of the events the handlers only logged
InitLog ==
  /\ registrations = [c \in Clients |-> <<>>]
  /\ iteratorTimeout = [c \in Clients |-> 0]
  /\ timers = <<>>
  /\ streams = <<>>
  /\ pending = <<>>
  /\ loops = <<>>
  /\ published = <<>>
  /\ response = NoResponse
  /\ nextTopic = 1
  /\ produced = [t \in Topics |-> <<>>]
  /\ afterCancel = [t \in Topics |-> -1]
  /\ ignored = "none"
  /\ process = "running"
  /\ fPayload = NullPayload
  /\ fVariables = OmittedVariables
  /\ fResult = "idle"

LogSpec == InitLog /\ [][Next]_vars

\* several subscriptions that are claimed and stay claimed, and an engine
\* that produces events and raises
NextFault ==
  \/ \E r \in Requests :
       /\ nextTopic <= MaxRegs
       /\ RegisterBegin(r.clientId, r.documentAST, r.variables)
  \/ \E i \in 1 .. MaxPending : RegisterOk(i)
  \/ \E t \in Topics, c \in Clients : SubscribedRegistered(t, c)
  \/ \E s \in 1 .. MaxStreams, e \in StreamEvents :
       /\ SumLen(produced, MaxRegs) < MaxEvents
       /\ Produce(s, e)
  \/ \E l \in 1 .. MaxLoops : Deliver(l)
  \/ \E l \in 1 .. MaxLoops : LoopStep(l)
  \/ \E l \in 1 .. MaxLoops : StreamFault(l)
  \/ \E l \in 1 .. MaxLoops : LoopEnd(l)

FaultSpec == Init /\ [][NextFault]_vars

\* the Event Filter on its own: every payload against every variables value
InitFilter ==
  /\ InitServer
  /\ fPayload \in Payloads
  /\ fVariables \in VariableValues
  /\ fResult = "idle"

ApplyFilter ==
  /\ fResult = "idle"
  /\ fResult' = shouldPublishSubscription(fPayload, fVariables)
  /\ UNCHANGED <<fPayload, fVariables>>
  /\ UNCHANGED serverVars

NextFilter == ApplyFilter

FilterSpec == InitFilter /\ [][NextFilter]_vars

----------------------------------------------------------------------------
(* Claims *)

AllRegs == {reg \in UNION {{registrations[c][k] : k \in 1 .. Len(registrations[c])} : c \in Clients} : TRUE}

RegOf(topic) == CHOOSE reg \in AllRegs : reg.topicId = topic

Registered(topic) == \E reg \in AllRegs : reg.topicId = topic

LoopsOf(topic) == {l \in 1 .. Len(loops) : loops[l].topicId = topic}

\* Active: claimed by a subscribed event, with a loop draining its stream
Active(topic) ==
  /\ Registered(topic)
  /\ RegOf(topic).isRegistered
  /\ LoopsOf(topic) # {}

\* C1: in every reachable state each Registration has at most one Consumption
\* Loop running and at most one event stream being drained for it.
C1_AtMostOneLoop ==
  \A t \in Topics :
    /\ Cardinality(LoopsOf(t)) <= 1
    /\ Cardinality({loops[l].asyncIterator : l \in LoopsOf(t)}) <= 1

\* C2: a subscribed event for a Registration that is already Active is a no-op:
\* it starts no Consumption Loop, creates no stream and changes no Registration.
C2_SecondSubscribedIsNoOp ==
  [][\A t \in Topics, c \in Clients :
       (Active(t) /\ onClientSubscribed(t, c) /\ FindReg(registrations[c], t) # 0)
         => UNCHANGED <<loops, streams, registrations>>]_vars

\* the Event Filter as the design states it: the event carries a payload body
\* and every bound variable equals the sub-value of the body's first field
PassesFilter(event, variables) ==
  /\ ~event.isNull
  /\ ~event.dataIsNull
  /\ \/ \A k \in Keys : variables.entries[k] = Undefined
     \/ /\ Len(event.data) >= 1
        /\ ~event.data[1].value.isNull
        /\ \A k \in Keys :
             variables.entries[k] # Undefined
               => event.data[1].value.props[k] = variables.entries[k]

\* the message the design asks for when a loop resumes with a pulled event
ExpectedMessage(l) ==
  [topic |-> RegOf(streams[loops[l].asyncIterator].topic).topicId,
   payload |-> JSONStringify(loops[l].value),
   qos |-> 0, retain |-> FALSE]

FirstFieldMatches(payload, variables) ==
  /\ Len(payload.data) >= 1
  /\ ~payload.data[1].value.isNull
  /\ \A k \in Keys :
       variables.entries[k] # Undefined
         => payload.data[1].value.props[k] = variables.entries[k]

HasBody(payload) == ~payload.isNull /\ ~payload.dataIsNull

NonEmptyMap(variables) ==
  /\ ~variables.omitted
  /\ \E k \in Keys : variables.entries[k] # Undefined

EmptyMap(variables) ==
  /\ ~variables.omitted
  /\ \A k \in Keys : variables.entries[k] = Undefined

\* C4: for an event with a payload body and a non-empty variable map,
\* shouldPublish returns true exactly when every bound variable is strictly
\* equal to the sub-value of the first top-level field; later fields are not
\* looked at.
C4_TrueIffFirstFieldMatches ==
  (fResult # "idle" /\ HasBody(fPayload) /\ NonEmptyMap(fVariables))
    => (fResult = "true" <=> FirstFieldMatches(fPayload, fVariables))

\* C4 witness: the second field matches {id: "2"}, the first holds the number
\* 2, and the filter said false
C4_Witness ==
  /\ fResult = "false"
  /\ fVariables = VariableMap([k \in Keys |-> IF k = "id" THEN "s2" ELSE Undefined])
  /\ Len(fPayload.data) = 2
  /\ ~fPayload.data[1].value.isNull
  /\ fPayload.data[1].value.props["id"] = "n2"
  /\ ~fPayload.data[2].value.isNull
  /\ fPayload.data[2].value.props["id"] = "s2"

\* C5: shouldPublish(null, v) and shouldPublish({data: null}, v) are false for
\* every v, and shouldPublish(e, {}) is true for every e with a payload body.
C5_NullIsFalseEmptyIsTrue ==
  fResult # "idle" =>
    /\ ~HasBody(fPayload) => fResult = "false"
    /\ (HasBody(fPayload) /\ EmptyMap(fVariables)) => fResult = "true"

\* C5 witness: {data: null} against {id: "2"} was answered false
C5_Witness ==
  /\ fResult = "false"
  /\ fPayload = NoDataPayload
  /\ fVariables = VariableMap([k \in Keys |-> IF k = "id" THEN "s2" ELSE Undefined])

\* the stream register created for a topic: the one its timer would cancel
EagerStream(topic) ==
  timers[CHOOSE i \in 1 .. Len(timers) : timers[i].topicId = topic].asyncIterator

\* C6: after unsubscribed, a subscribed event for the same (client, topic)
\* resumes delivery: the engine is asked for a fresh stream with the stored
\* query, variables and context, the registration is active again on that
\* stream, a Consumption Loop runs on it for the same topic, and no register
\* call is involved.
C6_ResubscribeResumes ==
  [][\A i \in 1 .. Len(pending) :
       SubscribedOk(i) =>
         LET p == pending[i]
             r == FindReg(registrations[p.clientId], p.topicId)
             before == registrations[p.clientId][r]
             after == registrations'[p.clientId][r]
         IN /\ after.asyncIterator \notin 1 .. Len(streams)
            /\ after.asyncIterator \in 1 .. Len(streams')
            /\ streams'[after.asyncIterator].listening
            /\ streams'[after.asyncIterator].document = before.documentAST
            /\ streams'[after.asyncIterator].variableValues = before.variables
            /\ streams'[after.asyncIterator].contextValue = before.context
            /\ after.isRegistered
            /\ after.topicId = before.topicId
            /\ \E l \in 1 .. Len(loops') :
                 /\ loops'[l].asyncIterator = after.asyncIterator
                 /\ loops'[l].topicId = before.topicId
                 /\ loops'[l].pc = "next"
            /\ Len(registrations'[p.clientId]) = Len(registrations[p.clientId])
            /\ nextTopic' = nextTopic]_vars

\* C6 witness: topic 1 was unsubscribed and subscribed again, and the loop on
\* its fresh stream holds an event that stream produced
C6_Witness ==
  /\ Registered(1)
  /\ RegOf(1).isRegistered
  /\ RegOf(1).asyncIterator # EagerStream(1)
  /\ nextTopic = 2
  /\ \E l \in LoopsOf(1) :
       /\ loops[l].asyncIterator = RegOf(1).asyncIterator
       /\ loops[l].pc = "got"
       /\ loops[l].value = OnCreate("s2")

PublishedTo(topic) == SelectSeq(published, LAMBDA m : m.topic = topic)

\* C7 as stated: once the window of a Registration is over without a
\* subscribed event for its topic, its stream is cancelled, whatever connect
\* events occurred, and nothing is published for the topic.
C7_UnclaimedIsCancelled ==
  \A i \in 1 .. Len(timers) :
    (timers[i].state \in {"fired", "lapsed"} /\ ~timers[i].claimed)
      => /\ ~streams[timers[i].asyncIterator].listening
         /\ (RegOf(timers[i].topicId).asyncIterator = timers[i].asyncIterator
               => PublishedTo(timers[i].topicId) = <<>>)

\* C7 amended: if the timer of a Registration is still armed when its window
\* ends (no connect cleared it) and no subscribed event for its topic arrived
\* in the window, the stream register created is cancelled and nothing is
\* published for the topic as long as the Registration keeps that stream.
C7_ArmedUnclaimedIsCancelled ==
  \A i \in 1 .. Len(timers) :
    (timers[i].state = "fired" /\ ~timers[i].claimed)
      => /\ ~streams[timers[i].asyncIterator].listening
         /\ (RegOf(timers[i].topicId).asyncIterator = timers[i].asyncIterator
               => PublishedTo(timers[i].topicId) = <<>>)

\* C7 witness: the timer fired on an unclaimed registration whose stream had
\* buffered an event, and a subscribed event that came later found it ended
C7_Witness ==
  /\ Len(timers) = 1
  /\ timers[1].state = "fired"
  /\ ~timers[1].claimed
  /\ produced[1] # <<>>
  /\ afterCancel[1] = -1
  /\ RegOf(1).isRegistered
  /\ RegOf(1).asyncIterator = timers[1].asyncIterator
  /\ loops = <<>>
  /\ published = <<>>

\* C8: after unsubscribed requested the cancellation of a Registration's
\* stream, at most one more event is published for its topic until a later
\* subscribed event for that topic is handled.
C8_AtMostOneAfterCancel == \A t \in Topics : afterCancel[t] <= 1

RECURSIVE IsSubseq(_, _)
IsSubseq(s, t) ==
  IF s = <<>> THEN TRUE
  ELSE IF t = <<>> THEN FALSE
  ELSE IF Head(s) = Head(t) THEN IsSubseq(Tail(s), Tail(t))
  ELSE IsSubseq(s, Tail(t))

\* C9: the payloads published to a Registration's topic are, in order, a
\* subsequence of the events the engine produced for that Registration.
C9_PublishedInProductionOrder ==
  \A t \in Topics :
    IsSubseq([k \in 1 .. Len(PublishedTo(t)) |-> PublishedTo(t)[k].payload],
             [k \in 1 .. Len(produced[t]) |-> JSONStringify(produced[t][k])])

\* C10: when the engine answers register with errors, register returns errors
\* and the Registration Store and the timer table are as they were: nothing
\* is inserted, no timer is armed.
C10_FailedRegisterLeavesNoTrace ==
  [][\A i \in 1 .. Len(pending) :
       RegisterErrors(i) =>
         /\ response'.kind = "errors"
         /\ registrations' = registrations
         /\ iteratorTimeout' = iteratorTimeout
         /\ timers' = timers
         /\ \A c \in Clients :
              \A k \in 1 .. Len(registrations'[c]) :
                registrations'[c][k].topicId # pending[i].topicId
         /\ \A k \in 1 .. Len(timers') : timers'[k].topicId # pending[i].topicId]_vars

\* C10 witness: c1 holds a registration with its timer armed, and a later
\* register was answered with errors
C10_Witness ==
  /\ response.kind = "errors"
  /\ nextTopic = 3
  /\ pending = <<>>
  /\ Len(registrations["c1"]) = 1
  /\ registrations["c2"] = <<>>
  /\ Len(timers) = 1
  /\ timers[1].state = "armed"
  /\ iteratorTimeout["c1"] = 1

\* the topic identities of a client's Registrations, in the order of the store
TopicsOf(regs) == [k \in 1 .. Len(regs) |-> regs[k].topicId]

\* C11: a successful register for client c returns a handshake whose topic list
\* is the topic identities of the Registrations c already had, in registration
\* order, followed by the newly allocated topic identity, and that identity
\* differs from every topic identity already in the store.
C11_HandshakeListsAllTopics ==
  [][\A i \in 1 .. Len(pending) :
       RegisterOk(i) =>
         LET p == pending[i]
         IN /\ response'.kind = "handshake"
            /\ response'.client = p.clientId
            /\ response'.topic = p.topicId
            /\ response'.topics =
                 Append(TopicsOf(registrations[p.clientId]), p.topicId)
            /\ response'.topics = TopicsOf(registrations'[p.clientId])
            /\ \A reg \in AllRegs : reg.topicId # p.topicId]_vars

\* C11 witness: c1 registered twice and the second call to start was the first
\* to be answered, so the handshake of the other lists topic 2 before topic 1
C11_Witness ==
  /\ response.kind = "handshake"
  /\ response.client = "c1"
  /\ response.topic = 1
  /\ response.topics = <<2, 1>>
  /\ TopicsOf(registrations["c1"]) = <<2, 1>>

\* C12: whenever a Registration is Active, no Liveness Timer that can cancel
\* its stream is armed, and a timer that fired cancelled the stream of a
\* Registration no subscribed event had claimed.
C12_NoArmedTimerWhileActive ==
  \A i \in 1 .. Len(timers) :
    /\ timers[i].state = "armed" =>
         ~(/\ Active(timers[i].topicId)
           /\ RegOf(timers[i].topicId).asyncIterator = timers[i].asyncIterator)
    /\ timers[i].state = "fired" => ~timers[i].claimed

\* C13: immediately after connect(c) is handled, no Liveness Timer created by
\* an earlier register of client c remains armed, also when c registered two
\* or more subscriptions before connecting.
C13_ConnectDisarmsEveryTimer ==
  [][\A c \in Clients :
       onClientConnect(c) =>
         \A i \in 1 .. Len(timers') :
           timers'[i].clientId = c => timers'[i].state # "armed"]_vars

\* C14: every cancellation request issued to a Registration's stream, by
\* unsubscribed or by the Liveness Timer firing, leaves the Registration's
\* flag false in the same step, so that a later subscribed event obtains a
\* fresh stream.
C14_CancellationDeactivates ==
  [][/\ \A t \in Topics, c \in Clients :
          UnsubscribedKnown(t, c) =>
            ~registrations'[c][FindReg(registrations[c], t)].isRegistered
     /\ \A i \in 1 .. Len(timers) :
          (WindowElapses(i) /\ timers[i].state = "armed") =>
            LET c == timers[i].clientId
            IN ~registrations'[c][FindReg(registrations[c], timers[i].topicId)].isRegistered]_vars

\* a Consumption Loop is draining the stream the Registration holds
Draining(reg) ==
  \E l \in 1 .. Len(loops) :
    /\ loops[l].topicId = reg.topicId
    /\ loops[l].asyncIterator = reg.asyncIterator

\* C15: in every reachable state a Registration's flag is true only while a
\* Consumption Loop is draining its stream: register stores the Registration
\* as inactive and the flag is false once the loop has ended.
C15_FlagOnlyWhileDraining ==
  \A reg \in AllRegs : reg.isRegistered => Draining(reg)

\* C16: once unsubscribed for a topic has been handled and as long as no
\* subscribed event for that topic is received after it, the Registration
\* stays Suspended and no Consumption Loop is started for it, also when a
\* subscribed handler received earlier was still suspended awaiting stream
\* creation when unsubscribed arrived; its loops can only come to an end.
C16_StaysSuspendedAfterUnsubscribed ==
  [][\A t \in Topics :
       (afterCancel[t] >= 0 /\ ~(\E c \in Clients : onClientSubscribed(t, c)))
         => /\ \A c \in Clients :
                 \A k \in 1 .. Len(registrations'[c]) :
                   registrations'[c][k].topicId = t
                     => ~registrations'[c][k].isRegistered
            /\ Cardinality({l \in 1 .. Len(loops') : loops'[l].topicId = t})
                 <= Cardinality(LoopsOf(t))]_vars

\* C17: unsubscribed for a known (client, topic) only deactivates: the
\* Registration stays in the client's sequence at the same position with its
\* topic identity, query document, bound variables and context unchanged,
\* every other Registration of every client is unchanged, and no step of any
\* operation removes a Registration from the store.
C17_UnsubscribedOnlyDeactivates ==
  [][/\ \A t \in Topics, c \in Clients :
          UnsubscribedKnown(t, c) =>
            LET r == FindReg(registrations[c], t)
            IN /\ \A d \in Clients : Len(registrations'[d]) = Len(registrations[d])
               /\ registrations'[c][r].topicId = t
               /\ registrations'[c][r].documentAST = registrations[c][r].documentAST
               /\ registrations'[c][r].variables = registrations[c][r].variables
               /\ registrations'[c][r].context = registrations[c][r].context
               /\ ~registrations'[c][r].isRegistered
               /\ \A d \in Clients :
                    \A k \in 1 .. Len(registrations[d]) :
                      (d # c \/ k # r) => registrations'[d][k] = registrations[d][k]
     /\ \A c \in Clients :
          /\ Len(registrations'[c]) >= Len(registrations[c])
          /\ \A k \in 1 .. Len(registrations[c]) :
               registrations'[c][k].topicId = registrations[c][k].topicId]_vars

\* C17 witness: c1 holds two Registrations, the first was unsubscribed and the
\* second was not
C17_Witness ==
  /\ Len(registrations["c1"]) = 2
  /\ ~registrations["c1"][1].isRegistered
  /\ registrations["c1"][2].isRegistered
  /\ afterCancel[registrations["c1"][1].topicId] = 0

\* C18: disconnected(c) changes no state, whether or not c is known: the
\* Registration Store, every flag and stream, the timer table and every
\* running Consumption Loop are as before, so the loops of c keep publishing.
C18_DisconnectChangesNothing ==
  [][\A c \in Clients :
       onClientDisconnect(c) =>
         UNCHANGED <<registrations, iteratorTimeout, timers, streams, pending,
                     loops, published, response, nextTopic>>]_vars

\* C18 witness: the last event that was only logged is a disconnect, and the
\* loop of c2's Registration has published two events and is pulling the next
C18_Witness ==
  /\ ignored = "disconnected"
  /\ Len(registrations["c2"]) = 1
  /\ Active(1)
  /\ streams[RegOf(1).asyncIterator].listening
  /\ Len(PublishedTo(1)) = 2
  /\ \E l \in LoopsOf(1) : loops[l].pc = "next"

\* C19: a subscribed or unsubscribed event whose client has no entry in the
\* store, or whose topic matches no Registration of that client, is ignored:
\* it starts no loop, cancels no stream, publishes nothing and leaves the
\* store and the timer table unchanged.
C19_UnknownEventsAreIgnored ==
  [][\A t \in Topics, c \in Clients :
       (/\ FindReg(registrations[c], t) = 0
        /\ onClientSubscribed(t, c) \/ onClientUnsubscribed(t, c))
         => UNCHANGED <<registrations, iteratorTimeout, timers, streams, pending,
                        loops, published, response, nextTopic>>]_vars

\* C19 witness: an unsubscribed event for an unknown (client, topic) was the
\* last event only logged, while topic 1 is Active with an event in hand
C19_Witness ==
  /\ ignored = "unsubscribed"
  /\ Active(1)
  /\ streams[RegOf(1).asyncIterator].listening
  /\ \E l \in LoopsOf(1) : loops[l].pc = "got"

\* C20: when subscribed arrives for a Suspended Registration and the engine
\* answers with errors, no Consumption Loop is started, the Registration is
\* not marked active, the stream it holds is not replaced and nothing is
\* published.
C20_FailedResubscribeChangesNothing ==
  [][\A i \in 1 .. Len(pending) :
       SubscribedErrors(i) =>
         UNCHANGED <<loops, registrations, streams, published>>]_vars

\* C20 witness: topic 1 was unsubscribed, a subscribed event came after it,
\* every handler has finished, and the Registration is still Suspended
C20_Witness ==
  /\ Registered(1)
  /\ ~RegOf(1).isRegistered
  /\ afterCancel[1] = -1
  /\ pending = <<>>
  /\ loops = <<>>

\* the step is a failure inside loop l: its stream raised, or the filter
\* raised on the event the loop had pulled
Fails(l) ==
  \/ StreamFault(l)
  \/ /\ LoopStep(l)
     /\ shouldPublishSubscription(loops[l].value, loops[l].variables) = "TypeError"

\* C21: when a Registration's stream raises while being consumed, or the
\* processing of a pulled event fails, only that Registration's Consumption
\* Loop terminates: nothing is retried (no stream is requested, no handler is
\* started), and every other Registration's state, stream and loop are as
\* they were.
C21_FaultEndsOnlyThatLoop ==
  [][\A l \in 1 .. Len(loops) :
       Fails(l) =>
         /\ registrations' = registrations
         /\ timers' = timers
         /\ Len(pending') <= Len(pending)
         /\ Len(streams') = Len(streams)
         /\ \A s \in 1 .. Len(streams) :
              streams[s].topic # loops[l].topicId => streams'[s] = streams[s]
         /\ \A k \in 1 .. Len(loops) :
              loops[k].topicId # loops[l].topicId
                => \E j \in 1 .. Len(loops') : loops'[j] = loops[k]]_vars

\* C22: shouldPublish is total: for every event and every value of the bound
\* variables that register accepts, a body with no top-level field, a first
\* field that is null and omitted variables included, it returns a boolean
\* and does not raise.
C22_FilterIsTotal ==
  fResult \in {"idle", "true", "false"}

====
